---- MODULE Spec2Model ----
(***************************************************************************)
(* Model of android/app/align_elf_segments.py: align_elf_load_segments     *)
(* patches, in place, the p_align field of every PT_LOAD program header of *)
(* an ELF file.  The file is a sequence of bytes; a call is broken into    *)
(* its header read, header parse, one step per loop iteration and the      *)
(* final return.  A caller may invoke the function a second time on the    *)
(* file the first call left behind.                                        *)
(***************************************************************************)
EXTENDS Integers, Sequences, FiniteSets, TLC

VARIABLES file, pre, page_size, pc, elf_header, is_64bit, is_little_endian,
          e_phoff, e_phentsize, e_phnum, i, modified, result, cause,
          written, visited, run, firstResult

vars == <<file, pre, page_size, pc, elf_header, is_64bit, is_little_endian,
          e_phoff, e_phentsize, e_phnum, i, modified, result, cause,
          written, visited, run, firstResult>>

(***************************************************************************)
(* Bounds of the model.                                                    *)
(***************************************************************************)
MaxPhnum == 2

(***************************************************************************)
(* Program constants.                                                      *)
(***************************************************************************)
HeaderReadSize == 64
PT_LOAD == 1
Huge == 256 * 65536

ELF_MAGIC == <<127, 69, 76, 70>>

(***************************************************************************)
(* Byte strings.  Offsets are 0-based as in the source; sequences are      *)
(* 1-based.  Integers wider than TLC's are kept as their big-endian digit  *)
(* string without leading zeros (a magnitude).                             *)
(***************************************************************************)
Min(a, b) == IF a < b THEN a ELSE b

Rev(s) == [k \in 1..Len(s) |-> s[Len(s) + 1 - k]]

Zeros(n) == [k \in 1..n |-> 0]

RECURSIVE Strip(_)
Strip(s) == IF s = <<>> THEN <<>>
            ELSE IF s[1] = 0 THEN Strip(Tail(s)) ELSE s

\* bytes [a:b] of s, Python slice semantics (clipped at the end of s)
Slice(s, a, b) == IF a >= Len(s) THEN <<>> ELSE SubSeq(s, a + 1, Min(b, Len(s)))

\* f.seek(pos); f.read(n)
ReadAt(f, pos, n) == Slice(f, pos, pos + n)

\* f.seek(pos); f.write(bytes), only ever used inside the file
WriteAt(f, pos, bytes) ==
    [k \in 1..Len(f) |->
        IF k - 1 >= pos /\ k - 1 < pos + Len(bytes) THEN bytes[k - pos] ELSE f[k]]

\* struct.unpack(endian + fmt, bytes)[0], as a magnitude
Unpack(le, bytes) == Strip(IF le THEN Rev(bytes) ELSE bytes)

\* a magnitude as an integer; anything of 2^24 or more is past every file
ToNat(mag) == IF Len(mag) > 3 THEN Huge
              ELSE IF Len(mag) = 3 THEN mag[1] * 65536 + mag[2] * 256 + mag[3]
              ELSE IF Len(mag) = 2 THEN mag[1] * 256 + mag[2]
              ELSE IF Len(mag) = 1 THEN mag[1]
              ELSE 0

\* magnitude of a small natural number (below 2^24)
Mag(n) == Strip(<<(n \div 65536) % 256, (n \div 256) % 256, n % 256>>)

\* a pack that never raises and stores the low-order bytes instead
PackOk_wraps(v, w) == TRUE

\* struct.pack raises struct.error unless 0 <= value < 2^(8*w)
PackOk(v, w) == ~v.neg /\ Len(v.mag) <= w

\* struct.pack(endian + fmt, value): w bytes in the file's byte order
Pack(le, w, v) ==
    LET padded == Zeros(w) \o v.mag
        be == SubSeq(padded, Len(padded) - w + 1, Len(padded))
    IN IF le THEN Rev(be) ELSE be

\* a comparison that always asks for the write
Differs_always(current, v) == TRUE

\* current_align != page_size
Differs(current, v) == v.neg \/ current # v.mag

\* a magic check that looks at the first three bytes only
IsElf_three(h) == Slice(h, 0, 3) = SubSeq(ELF_MAGIC, 1, 3)

\* elf_header[:4] != b'\x7fELF'
IsElf(h) == Slice(h, 0, 4) = ELF_MAGIC

(***************************************************************************)
(* Layout chosen by the header parse (lines 42-73).                        *)
(***************************************************************************)
p_align_offset == IF is_64bit THEN 48 ELSE 28

p_align_size == IF is_64bit THEN 8 ELSE 4

\* ph_offset = e_phoff + (i * e_phentsize)
ph_offset(k) == e_phoff + k * e_phentsize

(***************************************************************************)
(* Input files.  A file is built from a zero-filled buffer of the chosen   *)
(* length: the program header entries are laid down in table order, then   *)
(* the ELF header fields; whatever falls past the end of the file is cut.  *)
(***************************************************************************)
Classes == {1, 2}
Datas == {1, 2}
Lens == {3, 5, 46, 66, 176}
Offs == {12, 64}
EntSizes == {1, 28, 32, 56}
Types == {PT_LOAD, 6}
Aligns == {<<16, 0>>, <<64, 0>>}
Targets == { [neg |-> FALSE, mag |-> <<64, 0>>],
             [neg |-> FALSE, mag |-> <<1>>],
             [neg |-> TRUE,  mag |-> <<1>>],
             [neg |-> FALSE, mag |-> <<1, 0, 0, 0, 0>>],
             [neg |-> FALSE, mag |-> <<1, 0, 0, 0, 0, 0, 0, 0, 0>>] }

\* bytes laid down at pos, cut at the end of the buffer
Put(f, pos, bytes) == WriteAt(f, pos, bytes)

PutNat(f, pos, le, w, n) == Put(f, pos, Pack(le, w, [neg |-> FALSE, mag |-> Mag(n)]))

RECURSIVE PutEntries(_, _, _, _, _, _, _, _)
PutEntries(f, k, n, off, es, c64, le, ents) ==
    IF k >= n THEN f
    ELSE LET base == off + k * es
             f1 == PutNat(f, base, le, 4, ents[k + 1][1])
             f2 == Put(f1, base + (IF c64 THEN 48 ELSE 28),
                       Pack(le, IF c64 THEN 8 ELSE 4,
                            [neg |-> FALSE, mag |-> ents[k + 1][2]]))
         IN PutEntries(f2, k + 1, n, off, es, c64, le, ents)

PutHeader(f, magicOk, cls, dat, off, es, n) ==
    LET c64 == cls = 2
        le == dat = 1
        f1 == Put(f, 0, IF magicOk THEN ELF_MAGIC ELSE <<127, 69, 76, 71>>)
        f2 == Put(f1, 4, <<cls, dat>>)
        f3 == PutNat(f2, IF c64 THEN 32 ELSE 28, le, IF c64 THEN 8 ELSE 4, off)
        f4 == PutNat(f3, IF c64 THEN 54 ELSE 42, le, 2, es)
    IN PutNat(f4, IF c64 THEN 56 ELSE 44, le, 2, n)

BuildFile(len, magicOk, cls, dat, off, es, n, ents) ==
    PutHeader(PutEntries(Zeros(len), 0, n, off, es, cls = 2, dat = 1, ents),
              magicOk, cls, dat, off, es, n)

\* locals of a call before they are assigned
Fresh ==
    /\ pc = "call"
    /\ elf_header = <<>>
    /\ is_64bit = FALSE
    /\ is_little_endian = FALSE
    /\ e_phoff = 0
    /\ e_phentsize = 0
    /\ e_phnum = 0
    /\ i = 0
    /\ modified = FALSE
    /\ result = "none"
    /\ cause = "none"
    /\ written = {}
    /\ visited = <<>>

Init ==
    /\ \E len \in Lens, magicOk \in BOOLEAN, cls \in Classes, dat \in Datas,
          off \in Offs, es \in EntSizes, n \in 0..MaxPhnum,
          ents \in [1..MaxPhnum -> Types \X Aligns] :
            file = BuildFile(len, magicOk, cls, dat, off, es, n, ents)
    /\ pre = file
    /\ page_size \in Targets
    /\ run = "first"
    /\ firstResult = "none"
    /\ Fresh

(***************************************************************************)
(* The call, lines 23-104.                                                 *)
(***************************************************************************)
\* the except clause, lines 102-104: the call returns False
Raise(why) ==
    /\ pc' = "done"
    /\ result' = "False"
    /\ cause' = why

\* lines 24-31: open, read 64 bytes, check the magic
ReadHeader ==
    /\ pc = "call"
    /\ elf_header' = ReadAt(file, 0, HeaderReadSize)
    /\ IF ~IsElf(elf_header')
       THEN /\ pc' = "done"
            /\ result' = "False"
            /\ cause' = "not_elf"
       ELSE /\ pc' = "parse"
            /\ UNCHANGED <<result, cause>>
    /\ UNCHANGED <<file, pre, page_size, is_64bit, is_little_endian, e_phoff,
                   e_phentsize, e_phnum, i, modified, written, visited, run,
                   firstResult>>

\* lines 33-76: class, byte order and the program header table descriptor
ParseHeader ==
    /\ pc = "parse"
    /\ IF Len(elf_header) <= 5
       THEN \* elf_header[4] or elf_header[5] raises IndexError
            /\ Raise("header")
            /\ UNCHANGED <<is_64bit, is_little_endian, e_phoff, e_phentsize,
                           e_phnum>>
       ELSE LET c64 == elf_header[5] = 2
                le == elf_header[6] = 1
                offb == IF c64 THEN Slice(elf_header, 32, 40)
                               ELSE Slice(elf_header, 28, 32)
                esb == IF c64 THEN Slice(elf_header, 54, 56)
                              ELSE Slice(elf_header, 42, 44)
                numb == IF c64 THEN Slice(elf_header, 56, 58)
                               ELSE Slice(elf_header, 44, 46)
            IN IF Len(offb) # (IF c64 THEN 8 ELSE 4) \/ Len(esb) # 2 \/ Len(numb) # 2
               THEN \* struct.unpack raises struct.error on a short slice
                    /\ Raise("header")
                    /\ UNCHANGED <<is_64bit, is_little_endian, e_phoff,
                                   e_phentsize, e_phnum>>
               ELSE /\ is_64bit' = c64
                    /\ is_little_endian' = le
                    /\ e_phoff' = ToNat(Unpack(le, offb))
                    /\ e_phentsize' = ToNat(Unpack(le, esb))
                    /\ e_phnum' = ToNat(Unpack(le, numb))
                    /\ pc' = "loop"
                    /\ UNCHANGED <<result, cause>>
    /\ UNCHANGED <<file, pre, page_size, elf_header, i, modified, written,
                   visited, run, firstResult>>

\* lines 79-95: one iteration of the loop over the program headers
VisitEntry ==
    /\ pc = "loop"
    /\ i < e_phnum
    /\ visited' = Append(visited, i)
    /\ LET typeb == ReadAt(file, ph_offset(i), 4)
           alignb == ReadAt(file, ph_offset(i) + p_align_offset, p_align_size)
       IN IF Len(typeb) # 4
          THEN /\ Raise("type_read")
               /\ UNCHANGED <<file, i, modified, written>>
          ELSE IF Unpack(is_little_endian, typeb) # Mag(PT_LOAD)
          THEN /\ i' = i + 1
               /\ UNCHANGED <<file, modified, written, pc, result, cause>>
          ELSE IF Len(alignb) # p_align_size
          THEN /\ Raise("align_read")
               /\ UNCHANGED <<file, i, modified, written>>
          ELSE IF ~Differs(Unpack(is_little_endian, alignb), page_size)
          THEN /\ i' = i + 1
               /\ UNCHANGED <<file, modified, written, pc, result, cause>>
          ELSE IF ~PackOk(page_size, p_align_size)
          THEN /\ Raise("pack")
               /\ UNCHANGED <<file, i, modified, written>>
          ELSE /\ file' = WriteAt(file, ph_offset(i) + p_align_offset,
                                  Pack(is_little_endian, p_align_size, page_size))
               /\ written' = written \cup
                    { ph_offset(i) + p_align_offset + b : b \in 0..(p_align_size - 1) }
               /\ modified' = TRUE
               /\ i' = i + 1
               /\ UNCHANGED <<pc, result, cause>>
    /\ UNCHANGED <<pre, page_size, elf_header, is_64bit, is_little_endian,
                   e_phoff, e_phentsize, e_phnum, run, firstResult>>

\* lines 97-100: the loop is over, both branches return True
Finish ==
    /\ pc = "loop"
    /\ i = e_phnum
    /\ pc' = "done"
    /\ result' = "True"
    /\ UNCHANGED <<file, pre, page_size, elf_header, is_64bit, is_little_endian,
                   e_phoff, e_phentsize, e_phnum, i, modified, cause, written,
                   visited, run, firstResult>>

\* line 12: the caller runs the function again, on the file as it now is
CallAgain ==
    /\ pc = "done"
    /\ run = "first"
    /\ run' = "second"
    /\ firstResult' = result
    /\ pre' = file
    /\ pc' = "call"
    /\ elf_header' = <<>>
    /\ is_64bit' = FALSE
    /\ is_little_endian' = FALSE
    /\ e_phoff' = 0
    /\ e_phentsize' = 0
    /\ e_phnum' = 0
    /\ i' = 0
    /\ modified' = FALSE
    /\ result' = "none"
    /\ cause' = "none"
    /\ written' = {}
    /\ visited' = <<>>
    /\ UNCHANGED <<file, page_size>>

Next == ReadHeader \/ ParseHeader \/ VisitEntry \/ Finish \/ CallAgain

Spec == Init /\ [][Next]_vars

(***************************************************************************)
(* Vocabulary of the properties.  pre is the file as the current call      *)
(* found it; the header fields are those the call decoded from it.         *)
(***************************************************************************)
\* the header was decoded: class, byte order and table descriptor are known
Parsed == pc = "loop" \/ (pc = "done" /\ cause \notin {"not_elf", "header"})

Entries == 0..(e_phnum - 1)

TypeBytes(g, k) == ReadAt(g, ph_offset(k), 4)

TypeReadable(g, k) == Len(TypeBytes(g, k)) = 4

\* entry k of file g has segment_type 1
Loadable(g, k) ==
    /\ TypeReadable(g, k)
    /\ Unpack(is_little_endian, TypeBytes(g, k)) = <<1>>

AlignBytes(g, k) == ReadAt(g, ph_offset(k) + p_align_offset, p_align_size)

AlignReadable(g, k) == Len(AlignBytes(g, k)) = p_align_size

\* the alignment field of entry k of file g decodes to the target
Aligned(g, k) ==
    /\ AlignReadable(g, k)
    /\ ~page_size.neg
    /\ Unpack(is_little_endian, AlignBytes(g, k)) = page_size.mag

\* offsets of the alignment field of entry k
AlignField(k) ==
    { ph_offset(k) + p_align_offset + b : b \in 0..(p_align_size - 1) }

\* offsets of entry k, from its type field through its alignment field
EntryBytes(k) == { ph_offset(k) + b : b \in 0..(p_align_offset + p_align_size - 1) }

BadMagic(g) ==
    \/ Len(g) < 4
    \/ g[1] # 127 \/ g[2] # 69 \/ g[3] # 76 \/ g[4] # 70

Unrepresentable == page_size.neg \/ Len(page_size.mag) > p_align_size

Returned == pc = "done"

(***************************************************************************)
(* C1 (Exactness): after a call that returns success, every entry that was *)
(* loadable in the input file has an alignment field that decodes to the   *)
(* target, whatever entry size the header carries.                         *)
(***************************************************************************)
C1_Exactness ==
    (Returned /\ result = "True") =>
        \A k \in Entries : Loadable(pre, k) => Aligned(file, k)

(***************************************************************************)
(* C2 (Non-interference): the file keeps its length, and every byte that   *)
(* changed lies inside the alignment field of an entry that was loadable   *)
(* in the input file.                                                      *)
(***************************************************************************)
C2_NonInterference ==
    Returned =>
        /\ Len(file) = Len(pre)
        /\ \A b \in 1..Len(file) :
              file[b] # pre[b] =>
                  \E k \in Entries : Loadable(pre, k) /\ (b - 1) \in AlignField(k)

(***************************************************************************)
(* C3 (Scope restriction): the alignment field bytes of every entry that   *)
(* was not loadable in the input file are the same before and after.       *)
(***************************************************************************)
C3_ScopeRestriction ==
    (Returned /\ Parsed) =>
        \A k \in Entries :
            ~Loadable(pre, k) => AlignBytes(file, k) = AlignBytes(pre, k)

(***************************************************************************)
(* C4 (Idempotence): a second call with the same target leaves the file as *)
(* the first call left it and returns what the first call returned.        *)
(***************************************************************************)
C4_Idempotence ==
    (Returned /\ run = "second") => (file = pre /\ result = firstResult)

(***************************************************************************)
(* C5 (Rejection): a file whose first four bytes are not the ELF magic,    *)
(* files shorter than four bytes included, is never written and the call   *)
(* returns failure.                                                        *)
(***************************************************************************)
C5_Rejection ==
    BadMagic(pre) =>
        /\ file = pre
        /\ written = {}
        /\ Returned => result = "False"

C5_Witness ==
    /\ Returned
    /\ run = "first"
    /\ BadMagic(pre)
    /\ Len(pre) > HeaderReadSize
    /\ result = "False"

(***************************************************************************)
(* C6 (Short file): a file shorter than 64 bytes is never written and the  *)
(* call returns failure.                                                   *)
(***************************************************************************)
C6_ShortFile ==
    Len(pre) < HeaderReadSize =>
        /\ written = {}
        /\ Returned => result = "False"

(***************************************************************************)
(* C7 (Truncated table): when table_file_offset + entry_count * entry_size *)
(* exceeds the file size the call returns failure.                         *)
(***************************************************************************)
C7_TruncatedTable ==
    (Returned /\ Parsed /\ e_phoff + e_phnum * e_phentsize > Len(pre)) =>
        result = "False"

(***************************************************************************)
(* C8 (No-op success): on a file with valid magic whose table lies inside  *)
(* the file and whose loadable entries all carry the target already, the   *)
(* call returns success, writes nothing and leaves the bytes as they were; *)
(* and a call fails only on a bad magic or a raised error.                 *)
(***************************************************************************)
TableInside == e_phoff + e_phnum * e_phentsize <= Len(pre)

AllAligned == \A k \in Entries : Loadable(pre, k) => Aligned(pre, k)

NoOpOutcome ==
    /\ result = "True"
    /\ written = {}
    /\ file = pre

FailsOnlyOnError == Returned => (result = "False" <=> cause # "none")

\* C8 as stated: the table inside the file is all that is asked of the layout
C8_NoOpSuccess_Original ==
    /\ (Returned /\ Parsed /\ TableInside /\ AllAligned) => NoOpOutcome
    /\ FailsOnlyOnError

\* C8 amended: no-op success on files whose table lies inside the file, whose
\* every segment_type field lies inside the file and whose loadable entries
\* all carry the target; failure only on a bad magic or a raised error
C8_NoOpSuccess ==
    /\ (Returned /\ Parsed /\ TableInside /\ AllAligned
          /\ \A k \in Entries : TypeReadable(pre, k)) => NoOpOutcome
    /\ FailsOnlyOnError

C8_Witness ==
    /\ Returned
    /\ run = "first"
    /\ Parsed
    /\ TableInside
    /\ e_phnum = MaxPhnum
    /\ \A k \in Entries : Loadable(pre, k) /\ Aligned(pre, k)
    /\ NoOpOutcome

(***************************************************************************)
(* C9 (Ordered partial progress): entries are visited in ascending order,  *)
(* once each; when a short read fails the call at entry k, every loadable  *)
(* entry below k carries the target and no byte of an entry at or above k  *)
(* has been written.                                                       *)
(***************************************************************************)
C9_OrderedPartialProgress ==
    /\ visited = [k \in 1..Len(visited) |-> k - 1]
    /\ (Returned /\ cause \in {"type_read", "align_read"}) =>
          /\ \A j \in 0..(i - 1) : Loadable(pre, j) => Aligned(file, j)
          /\ \A m \in i..(e_phnum - 1) : written \cap EntryBytes(m) = {}

(***************************************************************************)
(* C10 (Unrepresentable target): a target that does not fit the alignment  *)
(* field makes the call fail without modifying the file when the table has *)
(* a fully readable loadable entry, and succeed without modifying the file *)
(* when the table has no loadable entry.                                   *)
(***************************************************************************)
\* first half of C10: failure, and not a byte modified
C10_FailsUnwritten ==
    (Returned /\ Parsed /\ Unrepresentable
       /\ \E k \in Entries : Loadable(pre, k) /\ AlignReadable(pre, k)) =>
          (result = "False" /\ file = pre /\ written = {})

\* C10 as stated: success whenever the table has no loadable entry
C10_UnrepresentableTarget_Original ==
    /\ C10_FailsUnwritten
    /\ (Returned /\ Parsed /\ Unrepresentable
          /\ \A k \in Entries : ~Loadable(pre, k)) =>
             (result = "True" /\ file = pre)

\* C10 amended: an unrepresentable target fails the call unwritten when a
\* fully readable loadable entry exists, and the call succeeds unwritten when
\* every segment_type field is readable and none is loadable
C10_UnrepresentableTarget ==
    /\ C10_FailsUnwritten
    /\ (Returned /\ Parsed /\ Unrepresentable
          /\ \A k \in Entries : TypeReadable(pre, k) /\ ~Loadable(pre, k)) =>
             (result = "True" /\ file = pre)

C10_Witness ==
    /\ Returned
    /\ run = "first"
    /\ Unrepresentable
    /\ ~page_size.neg
    /\ cause = "pack"
    /\ \E k \in Entries : Loadable(pre, k) /\ AlignReadable(pre, k)
    /\ file = pre

====
